---- MODULE Spec2Model ----
(***************************************************************************)
(* Model of redash/handlers/data_sources.py: the data-source handlers      *)
(* (create, update, delete, get, list, pause, resume) over a table of      *)
(* DataSource rows.  A handler that reads a row, changes its own copy and  *)
(* saves it is split at its storage accesses, so that concurrent requests  *)
(* interleave as they do between two web workers.                          *)
(***************************************************************************)
EXTENDS Integers, Sequences, FiniteSets, TLC

\* ---------------------------------------------------------------- bounds
MaxReqs == 2        \* requests started in one behaviour
MaxId == 2          \* data source ids the table hands out

\* ------------------------------------------------------------ value sets
Procs == {"w1", "w2"}                 \* concurrent web workers
Ids == 1..MaxId
Orgs == {"o1", "o2"}
Groups == {"g1", "g2"}
Names == {"a", "b"}
Reasons == {"r1", "r2"}
None == "None"                         \* Python's None
FieldNames == {"host", "password"}
Vals == {"s1", "s2", "n1"}             \* two strings and a number
Permissions == {"admin", "list_data_sources"}

ValType(v) == IF v = "n1" THEN "number" ELSE "string"

\* A mapping with a finite set of keys (a Python dict).
Dicts(K, V) == UNION {[S -> V] : S \in SUBSET K}
EmptyDict == [k \in {} |-> None]

\* funcy.project(mapping, keys): the mapping restricted to the given keys.
project(mapping, keys) == [k \in (DOMAIN mapping) \cap keys |-> mapping[k]]

\* dict.values() as a set, and Python's all() over it.
values(mapping) == {mapping[k] : k \in DOMAIN mapping}
all(bools) == \A b \in bools : b

\* ------------------------------------------------------- schema registry
\* query_runners: connector type -> configuration schema.
query_runners ==
  [t \in {"es", "pg"} |->
     IF t = "es"
       THEN [f \in {"host"} |-> [type |-> "string", required |-> TRUE]]
       ELSE [f \in {"host", "password"} |->
               IF f = "host" THEN [type |-> "string", required |-> TRUE]
                             ELSE [type |-> "secret", required |-> TRUE]]]

NoSchema == [f \in {"<none>"} |-> [type |-> "none", required |-> FALSE]]

get_configuration_schema_for_type(t) ==
  IF t \in DOMAIN query_runners THEN query_runners[t] ELSE NoSchema

\* ----------------------------------------------- configuration container
\* A container is [schema |-> ..., values |-> dict].
TypeMatches(v, t) == ValType(v) = (IF t = "secret" THEN "string" ELSE t)

\* The fields of a schema that a mapping violates: a required field that is
\* missing, a present value of the wrong type, a key the schema does not know.
Violations(vals, schema) ==
  {f \in DOMAIN schema : schema[f].required /\ f \notin DOMAIN vals}
  \cup {f \in (DOMAIN vals) \cap (DOMAIN schema) : ~TypeMatches(vals[f], schema[f].type)}
  \cup ((DOMAIN vals) \ (DOMAIN schema))

ConfigurationContainer(config, schema) == [schema |-> schema, values |-> config]

is_valid(c) == Violations(c.values, c.schema) = {}

set_schema(c, schema) == [c EXCEPT !.schema = schema]

\* dict.update: the keys of new overwrite those of old.
Merge(old, new) ==
  [k \in (DOMAIN old) \cup (DOMAIN new) |-> IF k \in DOMAIN new THEN new[k] ELSE old[k]]

\* update(new): merge, validate the whole merged mapping, commit only when
\* it is valid.  ok = FALSE is the ValidationError.
update(c, new) ==
  LET merged == Merge(c.values, new)
  IN IF Violations(merged, c.schema) = {}
       THEN [ok |-> TRUE, c |-> [c EXCEPT !.values = merged]]
       ELSE [ok |-> FALSE, c |-> c]

\* ------------------------------------------------------- DataSource rows
NoRow == [id |-> 0]

DefaultGroup(org) == IF org = "o1" THEN "g1" ELSE "g2"

\* DataSource.pause(reason) / DataSource.resume() on the request's object.
pause(ds, reason) == [ds EXCEPT !.paused = TRUE, !.pause_reason = reason]
resume(ds) == [ds EXCEPT !.paused = FALSE, !.pause_reason = None]

\* DataSource.get_by_id_and_org: the row, or NoRow (DoesNotExist).
get_by_id_and_org(table, id, org) ==
  IF id \in DOMAIN table /\ table[id].id # 0 /\ table[id].org = org
    THEN table[id] ELSE NoRow

\* Model.save() of a loaded object: UPDATE ... WHERE id = ds.id, all columns.
save(table, ds) ==
  IF table[ds.id].id # 0 THEN [table EXCEPT ![ds.id] = ds] ELSE table

\* DataSource.create_with_group: INSERT with the next id, Active, visible
\* to the organization's default group with full access.
create_with_group(id, org, name, type, options) ==
  [id |-> id, org |-> org, name |-> name, type |-> type, options |-> options,
   groups |-> [g \in {DefaultGroup(org)} |-> FALSE],
   paused |-> FALSE, pause_reason |-> None]

\* Model.to_dict(): the masked entity; to_dict(all=True) adds the options.
to_dict(ds, full) ==
  IF full
    THEN [id |-> ds.id, name |-> ds.name, type |-> ds.type,
          paused |-> ds.paused, pause_reason |-> ds.pause_reason,
          options |-> ds.options.values]
    ELSE [id |-> ds.id, name |-> ds.name, type |-> ds.type,
          paused |-> ds.paused, pause_reason |-> ds.pause_reason]

\* ------------------------------------------------------------ requesters
Users == [org : Orgs, permissions : SUBSET Permissions, groups : SUBSET Groups]

has_permission(u, perm) == perm \in u.permissions

\* The admin-only handlers read the requester's organization and the admin
\* permission, nothing else of the requester.
AdminOpUsers == {u \in Users : u.groups = {} /\ "list_data_sources" \notin u.permissions
                               /\ (u.org = "o2" => has_permission(u, "admin"))}

\* ---------------------------------------------------------- request input
\* request.get_json(True) of create and update: a JSON object with some of
\* the keys type, name, options.
ReqTypes == {"es", "pg", "xx"}
ReqOptions == {o \in Dicts(FieldNames, Vals) :
                 /\ "host" \in DOMAIN o => o["host"] \in {"s1", "n1"}
                 /\ "password" \in DOMAIN o => o["password"] \in {"s1", "s2"}}
AllKeys == {"type", "name", "options"}
Bodies ==
  [keys : {AllKeys}, type : ReqTypes, name : Names, options : ReqOptions]
  \cup {[keys |-> AllKeys \ {k}, type |-> "pg", name |-> "a",
         options |-> [f \in FieldNames |-> "s1"]] : k \in AllKeys}

\* The body of a pause request, request.get_json(force=True, silent=True):
\* None (no body, or not JSON), or a JSON object, here {} or an object
\* with or without the key reason; and the query parameter reason.
PauseData ==
  {[json |-> FALSE, empty |-> TRUE, has_reason |-> FALSE, reason |-> None]}
  \cup {[json |-> TRUE, empty |-> TRUE, has_reason |-> FALSE, reason |-> None]}
  \cup {[json |-> TRUE, empty |-> FALSE, has_reason |-> FALSE, reason |-> None]}
  \cup {[json |-> TRUE, empty |-> FALSE, has_reason |-> TRUE, reason |-> r] : r \in Reasons}
PauseArgs == Reasons \cup {None}

\* ----------------------------------------------------------------- state
VARIABLES
  db,         \* the data_sources table: id -> row, NoRow where there is none
  nextId,     \* the id the next INSERT gets
  req,        \* per worker: the request it is serving, between load and save
  done,       \* the request the last step finished, and its outcome
  events,     \* record_event: the events recorded so far
  lastWrite,  \* per id: the request whose write of the row came last
  started,    \* requests started so far
  listing,    \* the response of the last list request
  arg,        \* the input of the last checked update (object, body)
  out         \* and what DataSourceResource_post made of it

vars == <<db, nextId, req, done, events, lastWrite, started, listing, arg, out>>

Idle == [pc |-> "idle"]
NoPause == [paused |-> FALSE, pause_reason |-> None]
NoFinish == [op |-> "none", id |-> 0, status |-> "none", exc |-> "none",
             admin |-> FALSE, org |-> "none", before |-> NoPause,
             field |-> None, asked |-> FALSE, groups |-> {}, types |-> <<>>]
NoWrite == [op |-> "none", reason |-> None, raced |-> "none"]
NoListing == [status |-> "none", u |-> [org |-> "none", permissions |-> {}, groups |-> {}],
              rows |-> <<>>, entries |-> <<>>]
PauseState(ds) == [paused |-> ds.paused, pause_reason |-> ds.pause_reason]

\* flask_restful.abort(status), as the handlers call it: the status and
\* nothing else, so no field of the input is named in the response.
abort(status) == [status |-> status, field |-> None]

\* The record of a finished request: what it was for, the status of the
\* response, the exception the handler ended on, the field the response
\* names, and what the handler had read by then: the requester's admin
\* permission, and past that check the id and the organization; for a pause
\* or resume, the pause state of the row before the request's write; for
\* the live schema, the requester's groups and whether the connector was
\* asked.
Finish(op, id, status, exc, u, before) ==
  IF exc = "PermissionDenied" /\ op # "schema"
    THEN [op |-> op, id |-> 0, status |-> status, exc |-> exc,
          admin |-> has_permission(u, "admin"), org |-> "none", before |-> before,
          field |-> abort(status).field, asked |-> FALSE, groups |-> {}, types |-> <<>>]
    ELSE [op |-> op, id |-> id, status |-> status, exc |-> exc,
          admin |-> has_permission(u, "admin"), org |-> u.org, before |-> before,
          field |-> IF exc = "none" THEN None ELSE abort(status).field,
          asked |-> FALSE, groups |-> {}, types |-> <<>>]

\* A request between its load and its save: the loaded object with the
\* handler's changes, the response it will give, and whether another
\* request has written the row since the load (overtaken, by which).
Loaded(op, id, u, ds, status, exc, reason) ==
  [pc |-> "save", op |-> op, id |-> id, u |-> u, ds |-> ds, status |-> status,
   exc |-> exc, reason |-> reason, overtaken |-> "none"]

require_admin_open(u) == TRUE

require_admin(u) == has_permission(u, "admin")

Begin(w) ==
  /\ req[w].pc = "idle"
  /\ started < MaxReqs
  /\ started' = started + 1

\* The response of a request that ends without a write.
Respond(w, op, id, status, exc, u) ==
  /\ done' = Finish(op, id, status, exc, u, NoPause)
  /\ req' = [req EXCEPT ![w] = Idle]

\* The worker is free again; the requests still holding the row id, loaded
\* before this write, are overtaken by it.
AfterWrite(w, op, id) ==
  req' = [x \in Procs |->
            IF x = w THEN Idle
            ELSE IF req[x].pc = "save" /\ req[x].id = id /\ db[id].id # 0
              THEN [req[x] EXCEPT !.overtaken = op]
              ELSE req[x]]

\* ------------------------------------------- DataSourceResource (by id)
\* get: the full entity.
Get(w, u, id) ==
  /\ Begin(w)
  /\ \/ /\ ~require_admin(u)
        /\ Respond(w, "get", id, "403", "PermissionDenied", u)
     \/ /\ require_admin(u)
        /\ get_by_id_and_org(db, id, u.org) = NoRow
        /\ Respond(w, "get", id, "DoesNotExist", "DoesNotExist", u)
     \/ /\ require_admin(u)
        /\ get_by_id_and_org(db, id, u.org) # NoRow
        /\ Respond(w, "get", id, "200", "none", u)
  /\ UNCHANGED <<db, nextId, events, lastWrite, listing, arg, out>>

\* post, from the parsing of the body to the assignments before save():
\* the outcome, the request's object as the handler leaves it, and whether
\* save() is reached.
PostResult(status, exc, ds, saved) ==
  [status |-> status, exc |-> exc, ds |-> ds, save |-> saved]

DataSourceResource_post_saving(ds, r) ==
  IF "type" \notin r.keys THEN PostResult("500", "KeyError", ds, FALSE)
  ELSE LET schema == get_configuration_schema_for_type(r.type) IN
    IF schema = NoSchema THEN PostResult("400", "NoSchema", ds, FALSE)
    ELSE LET c1 == set_schema(ds.options, schema) IN
      IF "options" \notin r.keys
        THEN PostResult("500", "KeyError", [ds EXCEPT !.options = c1], FALSE)
      ELSE LET up == update(c1, r.options) IN
        IF ~up.ok
          THEN PostResult("400", "ValidationError", [ds EXCEPT !.options = up.c], TRUE)
        ELSE IF "name" \notin r.keys
          THEN PostResult("500", "KeyError",
                          [ds EXCEPT !.options = up.c, !.type = r.type], FALSE)
        ELSE PostResult("200", "none",
               [ds EXCEPT !.options = up.c, !.type = r.type, !.name = r.name], TRUE)

DataSourceResource_post_old_schema(ds, r) ==
  IF "type" \notin r.keys THEN PostResult("500", "KeyError", ds, FALSE)
  ELSE LET schema == get_configuration_schema_for_type(r.type) IN
    IF schema = NoSchema THEN PostResult("400", "NoSchema", ds, FALSE)
    ELSE LET c1 == ds.options IN
      IF "options" \notin r.keys
        THEN PostResult("500", "KeyError", [ds EXCEPT !.options = c1], FALSE)
      ELSE LET up == update(c1, r.options) IN
        IF ~up.ok
          THEN PostResult("400", "ValidationError", [ds EXCEPT !.options = up.c], FALSE)
        ELSE IF "name" \notin r.keys
          THEN PostResult("500", "KeyError",
                          [ds EXCEPT !.options = up.c, !.type = r.type], FALSE)
        ELSE PostResult("200", "none",
               [ds EXCEPT !.options = up.c, !.type = r.type, !.name = r.name], TRUE)

DataSourceResource_post_submitted_only(ds, r) ==
  IF "type" \notin r.keys THEN PostResult("500", "KeyError", ds, FALSE)
  ELSE LET schema == get_configuration_schema_for_type(r.type) IN
    IF schema = NoSchema THEN PostResult("400", "NoSchema", ds, FALSE)
    ELSE LET c1 == set_schema(ds.options, schema) IN
      IF "options" \notin r.keys
        THEN PostResult("500", "KeyError", [ds EXCEPT !.options = c1], FALSE)
      ELSE LET up == update(ConfigurationContainer(EmptyDict, schema), r.options) IN
        IF ~up.ok
          THEN PostResult("400", "ValidationError", [ds EXCEPT !.options = c1], FALSE)
        ELSE IF "name" \notin r.keys
          THEN PostResult("500", "KeyError",
                          [ds EXCEPT !.options = up.c, !.type = r.type], FALSE)
        ELSE PostResult("200", "none",
               [ds EXCEPT !.options = up.c, !.type = r.type, !.name = r.name], TRUE)

DataSourceResource_post(ds, r) ==
  IF "type" \notin r.keys THEN PostResult("500", "KeyError", ds, FALSE)
  ELSE LET schema == get_configuration_schema_for_type(r.type) IN
    IF schema = NoSchema THEN PostResult("400", "NoSchema", ds, FALSE)
    ELSE LET c1 == set_schema(ds.options, schema) IN
      IF "options" \notin r.keys
        THEN PostResult("500", "KeyError", [ds EXCEPT !.options = c1], FALSE)
      ELSE LET up == update(c1, r.options) IN
        IF ~up.ok
          THEN PostResult("400", "ValidationError", [ds EXCEPT !.options = up.c], FALSE)
        ELSE IF "name" \notin r.keys
          THEN PostResult("500", "KeyError",
                          [ds EXCEPT !.options = up.c, !.type = r.type], FALSE)
        ELSE PostResult("200", "none",
               [ds EXCEPT !.options = up.c, !.type = r.type, !.name = r.name], TRUE)

UpdateBegin(w, u, id) ==
  /\ Begin(w)
  /\ \/ /\ ~require_admin(u)
        /\ Respond(w, "update", id, "403", "PermissionDenied", u)
     \/ /\ require_admin(u)
        /\ get_by_id_and_org(db, id, u.org) = NoRow
        /\ Respond(w, "update", id, "DoesNotExist", "DoesNotExist", u)
     \/ /\ require_admin(u)
        /\ get_by_id_and_org(db, id, u.org) # NoRow
        /\ \E r \in Bodies :
             LET res == DataSourceResource_post(get_by_id_and_org(db, id, u.org), r) IN
             IF res.save
               THEN /\ req' = [req EXCEPT ![w] =
                         Loaded("update", id, u, res.ds, res.status, res.exc, None)]
                    /\ done' = NoFinish
               ELSE Respond(w, "update", id, res.status, res.exc, u)
  /\ UNCHANGED <<db, nextId, events, lastWrite, listing, arg, out>>

\* data_source.save() and the response.
UpdateSave(w) ==
  /\ req[w].pc = "save"
  /\ req[w].op = "update"
  /\ db' = save(db, req[w].ds)
  /\ lastWrite' = IF db[req[w].id].id # 0
                    THEN [lastWrite EXCEPT ![req[w].id] =
                            [op |-> "update", reason |-> None, raced |-> req[w].overtaken]]
                    ELSE lastWrite
  /\ done' = Finish("update", req[w].id, req[w].status, req[w].exc, req[w].u, NoPause)
  /\ AfterWrite(w, "update", req[w].id)
  /\ UNCHANGED <<nextId, events, started, listing, arg, out>>

\* delete: delete_instance(recursive=True).
Delete(w, u, id) ==
  /\ Begin(w)
  /\ \/ /\ ~require_admin(u)
        /\ Respond(w, "delete", id, "403", "PermissionDenied", u)
        /\ UNCHANGED <<db, lastWrite>>
     \/ /\ require_admin(u)
        /\ get_by_id_and_org(db, id, u.org) = NoRow
        /\ Respond(w, "delete", id, "DoesNotExist", "DoesNotExist", u)
        /\ UNCHANGED <<db, lastWrite>>
     \/ /\ require_admin(u)
        /\ get_by_id_and_org(db, id, u.org) # NoRow
        /\ db' = [db EXCEPT ![id] = NoRow]
        /\ lastWrite' = [lastWrite EXCEPT ![id] = NoWrite]
        /\ done' = Finish("delete", id, "204", "none", u, NoPause)
        /\ AfterWrite(w, "delete", id)
  /\ UNCHANGED <<nextId, events, listing, arg, out>>

\* --------------------------------------------- DataSourceListResource.post
\* The checks of create before anything is stored: the three required keys,
\* the schema of the type, the validity of the options.
DataSourceListResource_post_unvalidated(r) ==
  IF \E f \in AllKeys : f \notin r.keys THEN "MissingField"
  ELSE LET schema == get_configuration_schema_for_type(r.type) IN
    IF schema = NoSchema THEN "NoSchema"
    ELSE "none"

DataSourceListResource_post(r) ==
  IF \E f \in AllKeys : f \notin r.keys THEN "MissingField"
  ELSE LET schema == get_configuration_schema_for_type(r.type) IN
    IF schema = NoSchema THEN "NoSchema"
    ELSE IF ~is_valid(ConfigurationContainer(r.options, schema)) THEN "ValidationError"
    ELSE "none"

\* create past the admin check, for the body r: the checks, then the
\* insert, the event and the full entity.
CreateWith(w, u, r) ==
  IF DataSourceListResource_post(r) = "none"
    THEN /\ db' = [db EXCEPT ![nextId] =
              create_with_group(nextId, u.org, r.name, r.type,
                ConfigurationContainer(r.options,
                  get_configuration_schema_for_type(r.type)))]
         /\ nextId' = nextId + 1
         /\ events' = events \cup {[action |-> "create", object_id |-> nextId]}
         /\ lastWrite' = [lastWrite EXCEPT ![nextId] =
                            [op |-> "create", reason |-> None, raced |-> "none"]]
         /\ Respond(w, "create", nextId, "200", "none", u)
    ELSE /\ Respond(w, "create", 0, "400", DataSourceListResource_post(r), u)
         /\ UNCHANGED <<db, nextId, events, lastWrite>>

Create(w, u) ==
  /\ Begin(w)
  /\ nextId <= MaxId
  /\ \/ /\ ~require_admin(u)
        /\ Respond(w, "create", 0, "403", "PermissionDenied", u)
        /\ UNCHANGED <<db, nextId, events, lastWrite>>
     \/ /\ require_admin(u)
        /\ \E r \in Bodies : CreateWith(w, u, r)
  /\ UNCHANGED <<listing, arg, out>>

\* ------------------------------------------------- DataSourcePauseResource
\* The reason of a pause request: the body's when the body is truthy, the
\* query parameter's otherwise.
PauseReason(data, args) ==
  IF data.json /\ ~data.empty
    THEN (IF data.has_reason THEN data.reason ELSE None)
    ELSE args

\* data_source.pause(reason) on the loaded object.
PauseObjectOnce(ds, reason) == IF ds.paused THEN ds ELSE pause(ds, reason)
PauseObjectNoFlag(ds, reason) == [ds EXCEPT !.pause_reason = reason]
PauseObject(ds, reason) == pause(ds, reason)

\* data_source.resume() on the loaded object.
ResumeObjectKeepReason(ds) == [ds EXCEPT !.paused = FALSE]
ResumeObjectToggle(ds) == IF ds.paused THEN resume(ds) ELSE pause(ds, None)
ResumeObject(ds) == resume(ds)

PauseBegin(w, u, id) ==
  /\ Begin(w)
  /\ \/ /\ ~require_admin(u)
        /\ Respond(w, "pause", id, "403", "PermissionDenied", u)
     \/ /\ require_admin(u)
        /\ get_by_id_and_org(db, id, u.org) = NoRow
        /\ Respond(w, "pause", id, "404", "NotFound", u)
     \/ /\ require_admin(u)
        /\ get_by_id_and_org(db, id, u.org) # NoRow
        /\ \E data \in PauseData, args \in PauseArgs :
             LET reason == PauseReason(data, args) IN
             req' = [req EXCEPT ![w] =
                       Loaded("pause", id, u,
                              PauseObject(get_by_id_and_org(db, id, u.org), reason),
                              "200", "none", reason)]
        /\ done' = NoFinish
  /\ UNCHANGED <<db, nextId, events, lastWrite, listing, arg, out>>

ResumeBegin(w, u, id) ==
  /\ Begin(w)
  /\ \/ /\ ~require_admin(u)
        /\ Respond(w, "resume", id, "403", "PermissionDenied", u)
     \/ /\ require_admin(u)
        /\ get_by_id_and_org(db, id, u.org) = NoRow
        /\ Respond(w, "resume", id, "404", "NotFound", u)
     \/ /\ require_admin(u)
        /\ get_by_id_and_org(db, id, u.org) # NoRow
        /\ req' = [req EXCEPT ![w] =
                     Loaded("resume", id, u,
                            ResumeObject(get_by_id_and_org(db, id, u.org)),
                            "200", "none", None)]
        /\ done' = NoFinish
  /\ UNCHANGED <<db, nextId, events, lastWrite, listing, arg, out>>

\* data_source.save(), record_event and the response, of pause and resume.
PauseResumeSave(w) ==
  /\ req[w].pc = "save"
  /\ req[w].op \in {"pause", "resume"}
  /\ db' = save(db, req[w].ds)
  /\ lastWrite' = IF db[req[w].id].id # 0
                    THEN [lastWrite EXCEPT ![req[w].id] =
                            [op |-> req[w].op, reason |-> req[w].reason,
                             raced |-> req[w].overtaken]]
                    ELSE lastWrite
  /\ events' = events \cup {[action |-> req[w].op, object_id |-> req[w].id]}
  /\ done' = Finish(req[w].op, req[w].id, req[w].status, req[w].exc, req[w].u,
                    IF db[req[w].id].id # 0 THEN PauseState(db[req[w].id]) ELSE NoPause)
  /\ AfterWrite(w, req[w].op, req[w].id)
  /\ UNCHANGED <<nextId, started, listing, arg, out>>

\* ------------------------------------------------ DataSourceSchemaResource
\* permissions.has_access / require_access: an administrator always; anyone
\* else through a shared group, and, when more than view-only access is
\* needed, through a shared group that is not read-only.
has_access(groups, u, need_view_only) ==
  \/ has_permission(u, "admin")
  \/ /\ (DOMAIN groups) \cap u.groups # {}
     /\ (need_view_only \/ ~all(values(project(groups, u.groups))))

\* get: the load, the access check with view_only, the connector's schema.
\* connector_ok is whether the connector answers.
SchemaResult(status, exc, asked) == [status |-> status, exc |-> exc, asked |-> asked]

DataSourceSchemaResource_get_write_access(ds, u, connector_ok) ==
  IF ds = NoRow THEN SchemaResult("404", "NotFound", FALSE)
  ELSE IF ~has_access(ds.groups, u, FALSE)
    THEN SchemaResult("403", "PermissionDenied", FALSE)
  ELSE IF connector_ok THEN SchemaResult("200", "none", TRUE)
  ELSE SchemaResult("500", "UpstreamError", TRUE)

DataSourceSchemaResource_get(ds, u, connector_ok) ==
  IF ds = NoRow THEN SchemaResult("404", "NotFound", FALSE)
  ELSE IF ~has_access(ds.groups, u, TRUE)
    THEN SchemaResult("403", "PermissionDenied", FALSE)
  ELSE IF connector_ok THEN SchemaResult("200", "none", TRUE)
  ELSE SchemaResult("500", "UpstreamError", TRUE)

GetSchema(w, u, id) ==
  /\ Begin(w)
  /\ \E connector_ok \in BOOLEAN :
       LET res == DataSourceSchemaResource_get(get_by_id_and_org(db, id, u.org),
                                               u, connector_ok)
       IN done' = [Finish("schema", id, res.status, res.exc, u, NoPause)
                     EXCEPT !.asked = res.asked, !.groups = u.groups]
  /\ req' = [req EXCEPT ![w] = Idle]
  /\ UNCHANGED <<db, nextId, events, lastWrite, listing, arg, out>>

\* The requesters of the live schema in the runs of all handlers: of o1 or
\* o2, administrator or not, in the default group of o1 or in no group.
SchemaUsers == {u \in Users : "list_data_sources" \notin u.permissions
                              /\ u.groups \in {{}, {"g1"}}}

\* ---------------------------------------------- DataSourceTypeListResource
\* The registered query runners as objects with a type and a display name;
\* the ranks are the order of Python's string comparison on these values.
RunnerTypes == {"es", "pg", "sq"}
RunnerNames == {"Elastic", "Postgres"}
TypeRank == [t \in RunnerTypes |-> IF t = "es" THEN 1 ELSE IF t = "pg" THEN 2 ELSE 3]
NameRank == [n \in RunnerNames |-> IF n = "Elastic" THEN 1 ELSE 2]
Runners == [type : RunnerTypes, name : RunnerNames]

\* sorted(..., key=lambda q: q.name()): a stable sort on the name alone, an
\* element staying behind those of the same name that came before it.
RECURSIVE InsertByName(_, _)
InsertByName(q, sorted) ==
  IF sorted = <<>> THEN <<q>>
  ELSE IF NameRank[q.name] < NameRank[Head(sorted).name] THEN <<q>> \o sorted
  ELSE <<Head(sorted)>> \o InsertByName(q, Tail(sorted))

RECURSIVE SortedByName(_)
SortedByName(list) ==
  IF list = <<>> THEN <<>>
  ELSE InsertByName(list[Len(list)], SortedByName(SubSeq(list, 1, Len(list) - 1)))

\* get: values is query_runners.values(), in the order the dictionary
\* yields them.
DataSourceTypeListResource_get(vals) ==
  [k \in 1..Len(vals) |->
     [type |-> SortedByName(vals)[k].type, name |-> SortedByName(vals)[k].name]]

ListTypes(w, u, vals) ==
  /\ Begin(w)
  /\ \/ /\ ~require_admin(u)
        /\ Respond(w, "types", 0, "403", "PermissionDenied", u)
     \/ /\ require_admin(u)
        /\ done' = [Finish("types", 0, "200", "none", u, NoPause)
                      EXCEPT !.types = DataSourceTypeListResource_get(vals)]
        /\ req' = [req EXCEPT ![w] = Idle]
  /\ UNCHANGED <<db, nextId, events, lastWrite, listing, arg, out>>

\* --------------------------------------------------------- specification
\* The table at the start: empty, or holding one data source as a create
\* request of an administrator of o1 has left it.
\* query_runners.values() of the registry of the table's types, in either
\* order.
RegisteredValues ==
  LET registered == {[type |-> t, name |-> IF t = "es" THEN "Elastic" ELSE "Postgres"] :
                       t \in DOMAIN query_runners}
  IN {<<a, b>> : a \in registered, b \in registered} \
       {<<a, a>> : a \in registered}

Created ==
  {create_with_group(1, "o1", r.name, r.type,
      ConfigurationContainer(r.options, get_configuration_schema_for_type(r.type))) :
     r \in {b \in Bodies : DataSourceListResource_post(b) = "none" /\ b.name = "a"
                             /\ b.options = [f \in DOMAIN query_runners[b.type] |-> "s1"]}}

Init ==
  /\ \/ /\ db = [i \in Ids |-> NoRow]
        /\ nextId = 1
        /\ events = {}
        /\ lastWrite = [i \in Ids |-> NoWrite]
     \/ /\ \E ds \in Created : db = [i \in Ids |-> IF i = 1 THEN ds ELSE NoRow]
        /\ nextId = 2
        /\ events = {[action |-> "create", object_id |-> 1]}
        /\ lastWrite = [i \in Ids |-> IF i = 1
                          THEN [op |-> "create", reason |-> None, raced |-> "none"]
                          ELSE NoWrite]
  /\ req = [w \in Procs |-> Idle]
  /\ done = NoFinish
  /\ started = 0
  /\ listing = NoListing
  /\ arg = NoRow
  /\ out = NoRow

Next ==
  \/ \E w \in Procs, u \in AdminOpUsers : Create(w, u)
  \/ \E w \in Procs, u \in AdminOpUsers, id \in Ids : Get(w, u, id)
  \/ \E w \in Procs, u \in AdminOpUsers, id \in Ids : UpdateBegin(w, u, id)
  \/ \E w \in Procs : UpdateSave(w)
  \/ \E w \in Procs, u \in AdminOpUsers, id \in Ids : Delete(w, u, id)
  \/ \E w \in Procs, u \in AdminOpUsers, id \in Ids : PauseBegin(w, u, id)
  \/ \E w \in Procs, u \in AdminOpUsers, id \in Ids : ResumeBegin(w, u, id)
  \/ \E w \in Procs : PauseResumeSave(w)
  \/ \E w \in Procs, u \in SchemaUsers, id \in Ids : GetSchema(w, u, id)
  \/ \E w \in Procs, u \in AdminOpUsers, vals \in RegisteredValues :
       ListTypes(w, u, vals)

Spec == Init /\ [][Next]_vars

\* ---------------------------------------------- DataSourceListResource.get
\* DataSource.all(org) and DataSource.all(org, groups=...): the rows of the
\* organization, once each; with groups, the join with the data source's
\* groups, one row for every group of the requester the data source is in.
\* A row of the result is <<id, group>>, the group "*" without the join.
all_rows(table, org, groups, joined) ==
  IF joined
    THEN {<<i, g>> : i \in {j \in DOMAIN table : table[j].id # 0 /\ table[j].org = org},
                     g \in groups} \cap
         {p \in (DOMAIN table) \X Groups : table[p[1]].id # 0 /\ p[2] \in DOMAIN table[p[1]].groups}
    ELSE {<<i, "*">> : i \in {j \in DOMAIN table : table[j].id # 0 /\ table[j].org = org}}

\* The orders a query may return a set of rows in.
RECURSIVE Orders(_)
Orders(S) ==
  IF S = {} THEN {<<>>}
  ELSE UNION {{<<x>> \o t : t \in Orders(S \ {x})} : x \in S}

\* Lines 56-59: the query of the listing.
DataSourceList_query_all(table, u) == all_rows(table, u.org, u.groups, FALSE)
DataSourceList_query_groups(table, u) == all_rows(table, u.org, u.groups, TRUE)
DataSourceList_query(table, u) ==
  IF has_permission(u, "admin")
    THEN all_rows(table, u.org, u.groups, FALSE)
    ELSE all_rows(table, u.org, u.groups, TRUE)

\* Line 66-67: the entry of a data source, to_dict() and view_only.
ListEntry(ds, u) ==
  to_dict(ds, FALSE) @@ [view_only |-> all(values(project(ds.groups, u.groups)))]

\* Lines 61-68: the loop over the rows, response keyed by id.
RECURSIVE ListLoopAppend(_, _, _, _)
ListLoopAppend(table, rows, response, u) ==
  IF rows = <<>> THEN response
  ELSE LET ds == table[Head(rows)[1]]
           k == Cardinality(DOMAIN response) + 1
       IN ListLoopAppend(table, Tail(rows), response @@ (k :> ListEntry(ds, u)), u)

RECURSIVE ListLoop(_, _, _, _)
ListLoop(table, rows, response, u) ==
  IF rows = <<>> THEN response
  ELSE LET ds == table[Head(rows)[1]]
       IN IF ds.id \in DOMAIN response
            THEN ListLoop(table, Tail(rows), response, u)
            ELSE ListLoop(table, Tail(rows), response @@ (ds.id :> ListEntry(ds, u)), u)

\* response.values(): the values of the dict as a list, in the order the
\* dict happens to keep its keys in: any order.
DictValues(d) ==
  {[k \in 1..Len(o) |-> d[o[k]]] : o \in Orders(DOMAIN d)}

\* sorted(list, key=lambda d: d['id']): a stable insertion sort by id.
RECURSIVE InsertById(_, _)
InsertById(e, sorted) ==
  IF sorted = <<>> THEN <<e>>
  ELSE IF e.id < Head(sorted).id THEN <<e>> \o sorted
  ELSE <<Head(sorted)>> \o InsertById(e, Tail(sorted))

SortByIdUnsorted(list) == list

RECURSIVE SortById(_)
SortById(list) ==
  IF list = <<>> THEN <<>>
  ELSE InsertById(list[Len(list)], SortById(SubSeq(list, 1, Len(list) - 1)))

List(u) ==
  /\ listing = NoListing
  /\ \/ /\ ~has_permission(u, "list_data_sources")
        /\ listing' = [status |-> "403", u |-> u, rows |-> <<>>, entries |-> <<>>]
     \/ /\ has_permission(u, "list_data_sources")
        /\ \E rows \in Orders(DataSourceList_query(db, u)) :
             \E vals \in DictValues(ListLoop(db, rows, EmptyDict, u)) :
               listing' = [status |-> "200", u |-> u, rows |-> rows,
                           entries |-> SortById(vals)]
  /\ UNCHANGED <<db, nextId, req, done, events, lastWrite, started, arg, out>>

\* The tables a listing is taken of: rows of either organization, in any
\* of the groups, read-only or not.
ListedRow(i) ==
  {[create_with_group(i, org, "a", "es",
       ConfigurationContainer([f \in {"host"} |-> "s1"], query_runners["es"]))
     EXCEPT !.groups = gs] : org \in Orgs, gs \in Dicts(Groups, BOOLEAN)}

InitList ==
  /\ db \in {t \in [Ids -> UNION {ListedRow(i) : i \in Ids} \cup {NoRow}] :
               \A i \in Ids : t[i].id \in {0, i}}
  /\ nextId = MaxId + 1
  /\ req = [w \in Procs |-> Idle]
  /\ done = NoFinish
  /\ events = {}
  /\ lastWrite = [i \in Ids |-> NoWrite]
  /\ started = 0
  /\ listing = NoListing
  /\ arg = NoRow
  /\ out = NoRow

NextList == \E u \in Users : List(u)

SpecList == InitList /\ [][NextList]_vars

\* ------------------------------------- the update handler as a function
\* The objects an update can load: valid rows of either type.
LoadedRows ==
  {create_with_group(1, "o1", n, t,
      ConfigurationContainer(o, get_configuration_schema_for_type(t))) :
     n \in Names,
     <<t, o>> \in {p \in (DOMAIN query_runners) \X ReqOptions :
                     Violations(p[2], query_runners[p[1]]) = {}}}

InitPost ==
  /\ db = [i \in Ids |-> NoRow]
  /\ nextId = 1
  /\ req = [w \in Procs |-> Idle]
  /\ done = NoFinish
  /\ events = {}
  /\ lastWrite = [i \in Ids |-> NoWrite]
  /\ started = 0
  /\ listing = NoListing
  /\ arg \in [ds : LoadedRows, body : Bodies]
  /\ out = NoRow

ApplyPost ==
  /\ out = NoRow
  /\ out' = DataSourceResource_post(arg.ds, arg.body)
  /\ UNCHANGED <<db, nextId, req, done, events, lastWrite, started, listing, arg>>

NextPost == ApplyPost

SpecPost == InitPost /\ [][NextPost]_vars

\* ------------------------------------------------------------ properties
Exists(i) == db[i].id # 0

\* C1: an update whose options fail validation writes nothing: the table
\* after the step that answers it is the table before it, and no request
\* whose validation failed is ever left waiting to save.
C1_FailedUpdateWritesNothing ==
  [][/\ (done'.op = "update" /\ done'.exc = "ValidationError") => db' = db
     /\ \A w \in Procs : req'[w].pc = "save" => req'[w].exc = "none"]_vars

\* C1 witness: an update was answered with a validation failure while the
\* row it addressed is in the table.
C1_Witness ==
  /\ done.op = "update"
  /\ done.exc = "ValidationError"
  /\ Exists(done.id)

\* C2: the options of every row of the table are valid for the schema of the
\* row's type: the container holds that schema, every required field is
\* present, every present value has the declared type, no key is unknown.
C2_PersistedOptionsValid ==
  \A i \in Ids : Exists(i) =>
    LET schema == get_configuration_schema_for_type(db[i].type)
        vals == db[i].options.values
    IN /\ schema # NoSchema
       /\ db[i].options.schema = schema
       /\ \A f \in DOMAIN schema : schema[f].required => f \in DOMAIN vals
       /\ \A f \in DOMAIN vals : f \in DOMAIN schema /\ TypeMatches(vals[f], schema[f].type)

\* C2 witness: a row whose type an update has changed to pg, which requires
\* a password.
C2_Witness ==
  \E i \in Ids :
    /\ Exists(i)
    /\ lastWrite[i].op = "update"
    /\ db[i].type = "pg"
    /\ done.op = "update"
    /\ done.status = "200"

\* C3: an update that reaches save() holds the submitted options merged
\* into the loaded values, valid as a whole for the schema of the requested
\* type; an update whose merged mapping lacks a required field of that
\* schema, or is otherwise invalid for it, ends with 400 and no save.
C3_MergedValidated ==
  (out # NoRow /\ arg.body.keys = AllKeys /\ arg.body.type \in DOMAIN query_runners) =>
    LET schema == query_runners[arg.body.type]
        merged == [k \in (DOMAIN arg.ds.options.values) \cup (DOMAIN arg.body.options) |->
                     IF k \in DOMAIN arg.body.options
                       THEN arg.body.options[k] ELSE arg.ds.options.values[k]]
        lacking == {f \in DOMAIN schema : schema[f].required /\ f \notin DOMAIN merged}
        wrong == {f \in (DOMAIN merged) \cap (DOMAIN schema) :
                    ~TypeMatches(merged[f], schema[f].type)}
        unknown == (DOMAIN merged) \ (DOMAIN schema)
    IN /\ out.save => /\ out.ds.options.values = merged
                      /\ out.ds.options.schema = schema
                      /\ lacking = {} /\ wrong = {} /\ unknown = {}
       /\ (lacking # {} \/ wrong # {} \/ unknown # {}) => (out.status = "400" /\ ~out.save)
       /\ (lacking = {} /\ wrong = {} /\ unknown = {}) => (out.status = "200" /\ out.save)

\* C3 witness: an update that changes the type from es to pg and submits only
\* valid values, but no password, has failed.
C3_Witness ==
  /\ out # NoRow
  /\ arg.body.keys = AllKeys
  /\ arg.ds.type = "es"
  /\ arg.body.type = "pg"
  /\ arg.body.options = [f \in {"host"} |-> "s1"]
  /\ out.status = "400"
  /\ ~out.save

\* C4: a pause request ends with 403 only for a requester who is no
\* administrator, with 404 only when the organization has no such data
\* source, and otherwise with 200, its save leaving the row Paused with the
\* reason of this request, whatever the row's state and reason were.
C4_PauseOverwrites ==
  [][done'.op = "pause" =>
       \/ done'.status = "403" /\ ~done'.admin
       \/ done'.status = "404" /\ get_by_id_and_org(db, done'.id, done'.org) = NoRow
       \/ /\ done'.status = "200"
          /\ done'.admin
          /\ \E w \in Procs : req[w].pc = "save" /\ req'[w].pc = "idle"
          /\ \A w \in Procs :
               (req[w].pc = "save" /\ req'[w].pc = "idle" /\ Exists(req[w].id)) =>
                  /\ req[w].id = done'.id
                  /\ db'[req[w].id].paused
                  /\ db'[req[w].id].pause_reason = req[w].reason]_vars

\* C4 witness: a pause with a reason has been saved on a row that was Paused
\* with another reason, and the row holds the later reason.
C4_Witness ==
  /\ done.op = "pause"
  /\ done.status = "200"
  /\ Exists(done.id)
  /\ done.before.paused
  /\ done.before.pause_reason \in Reasons
  /\ db[done.id].pause_reason \in Reasons \ {done.before.pause_reason}

\* C5: a resume request ends with 403 only for a requester who is no
\* administrator, with 404 only when the organization has no such data
\* source, and otherwise with 200, its save leaving the row Active with no
\* reason; when the row is Active as the request loaded it the table does
\* not change; and a further resume of the resulting row changes nothing.
C5_ResumeIdempotent ==
  [][done'.op = "resume" =>
       \/ done'.status = "403" /\ ~done'.admin
       \/ done'.status = "404" /\ get_by_id_and_org(db, done'.id, done'.org) = NoRow
       \/ /\ done'.status = "200"
          /\ done'.admin
          /\ \E w \in Procs : req[w].pc = "save" /\ req'[w].pc = "idle"
          /\ \A w \in Procs :
               (req[w].pc = "save" /\ req'[w].pc = "idle" /\ Exists(req[w].id)) =>
                  /\ req[w].id = done'.id
                  /\ ~db'[req[w].id].paused
                  /\ db'[req[w].id].pause_reason = None
                  /\ (req[w].overtaken = "none" /\ ~db[req[w].id].paused) => db' = db
                  /\ save(db', ResumeObject(db'[req[w].id])) = db']_vars

\* C5 witness: a resume has been saved on a row that was already Active.
C5_Witness ==
  /\ done.op = "resume"
  /\ done.status = "200"
  /\ Exists(done.id)
  /\ ~done.before.paused
  /\ ~db[done.id].paused

\* C6: a row that is not paused has no pause reason, and a row last written
\* by its creation is Active.
C6_ActiveHasNoReason ==
  \A i \in Ids : Exists(i) =>
    /\ ~db[i].paused => db[i].pause_reason = None
    /\ lastWrite[i].op = "create" => ~db[i].paused

\* C6 witness: a row paused with a reason has been resumed.
C6_Witness ==
  /\ done.op = "resume"
  /\ done.status = "200"
  /\ Exists(done.id)
  /\ done.before.paused
  /\ done.before.pause_reason \in Reasons
  /\ ~db[done.id].paused

\* C7: when the last write of a row was the save of a pause request the row
\* is Paused with that request's reason, and when it was the save of a
\* resume request the row is Active with no reason, whatever other requests
\* loaded the row before that save; no row is Active with a reason.
C7_LastWriteWins ==
  \A i \in Ids : Exists(i) =>
    /\ lastWrite[i].op = "pause" =>
         (db[i].paused /\ db[i].pause_reason = lastWrite[i].reason)
    /\ lastWrite[i].op = "resume" =>
         (~db[i].paused /\ db[i].pause_reason = None)
    /\ ~(~db[i].paused /\ db[i].pause_reason # None)

\* C7 witness: a pause and a resume of one row have raced and both are
\* finished: the request that saved last had loaded the row before the
\* other one saved.
C7_Witness ==
  \E i \in Ids :
    /\ Exists(i)
    /\ \A w \in Procs : req[w].pc = "idle"
    /\ \/ lastWrite[i].op = "resume" /\ lastWrite[i].raced = "pause"
       \/ lastWrite[i].op = "pause" /\ lastWrite[i].raced = "resume"
                                    /\ lastWrite[i].reason \in Reasons

\* The groups a requester shares with a row.
Shared(ds, u) == (DOMAIN ds.groups) \cap u.groups

\* C8: view_only of an entry of the listing is true exactly when the
\* requester shares a group with the data source and every shared group is
\* read-only.
C8_ViewOnlyIff ==
  listing.status = "200" =>
    \A k \in 1..Len(listing.entries) :
      LET e == listing.entries[k]
          ds == db[e.id]
      IN e.view_only <=>
           (Shared(ds, listing.u) # {} /\ \A g \in Shared(ds, listing.u) : ds.groups[g])

\* C9: the listing has one entry for every data source the query returned,
\* however often and in whatever order it returned it, and the entry's
\* view_only is taken over all the groups the requester shares with it.
C9_ListingDeduplicated ==
  listing.status = "200" =>
    /\ \A j, k \in 1..Len(listing.entries) :
         listing.entries[j].id = listing.entries[k].id => j = k
    /\ {listing.entries[k].id : k \in 1..Len(listing.entries)}
         = {listing.rows[k][1] : k \in 1..Len(listing.rows)}
    /\ \A k \in 1..Len(listing.entries) :
         LET e == listing.entries[k]
             ds == db[e.id]
         IN e.view_only <=> \A g \in Shared(ds, listing.u) : ds.groups[g]

\* C9 witness: the query returned a data source twice, once for a read-only
\* group and once for a group with full access.
C9_Witness ==
  /\ listing.status = "200"
  /\ \E j, k \in 1..Len(listing.rows) :
       /\ j < k
       /\ listing.rows[j][1] = listing.rows[k][1]
       /\ LET ds == db[listing.rows[j][1]]
          IN ds.groups[listing.rows[j][2]] /\ ~ds.groups[listing.rows[k][2]]

\* C10: the listing of a requester who is no administrator holds exactly
\* the data sources of the requester's organization that are in one of the
\* requester's groups; the listing of an administrator holds exactly the
\* data sources of the organization.
C10_ListingFiltered ==
  listing.status = "200" =>
    {listing.entries[k].id : k \in 1..Len(listing.entries)}
      = {i \in Ids : /\ Exists(i)
                     /\ db[i].org = listing.u.org
                     /\ ("admin" \in listing.u.permissions
                           \/ (DOMAIN db[i].groups) \cap listing.u.groups # {})}

\* C10 witness: a requester who is no administrator has listed an
\* organization with a data source in one of the requester's groups and a
\* data source in none of them.
C10_Witness ==
  /\ listing.status = "200"
  /\ "admin" \notin listing.u.permissions
  /\ Len(listing.entries) = 1
  /\ \E i \in Ids :
       /\ Exists(i)
       /\ db[i].org = listing.u.org
       /\ DOMAIN db[i].groups # {}
       /\ Shared(db[i], listing.u) = {}

\* C11: the entries of the listing are in strictly ascending order of id,
\* whatever order the query returned the rows in, however often it returned
\* a data source, and whatever order the dict gave its values in.
C11_ListingAscending ==
  listing.status = "200" =>
    \A j, k \in 1..Len(listing.entries) :
      j < k => listing.entries[j].id < listing.entries[k].id

\* C11 witness: the query returned the data source with the larger id first
\* and returned a data source twice, and the listing has both data sources.
C11_Witness ==
  /\ listing.status = "200"
  /\ Len(listing.entries) = 2
  /\ Len(listing.rows) > 2
  /\ listing.rows[1][1] > listing.rows[Len(listing.rows)][1]

\* ------------------------------------------ create, for every kind of body
\* The bodies of a create request: any of the three keys may be missing.
CreateBodies ==
  [keys : SUBSET AllKeys, type : ReqTypes, name : Names, options : ReqOptions]

InitCreate ==
  /\ \/ /\ db = [i \in Ids |-> NoRow]
        /\ nextId = 1
        /\ events = {}
        /\ lastWrite = [i \in Ids |-> NoWrite]
     \/ /\ \E ds \in Created : db = [i \in Ids |-> IF i = 1 THEN ds ELSE NoRow]
        /\ nextId = 2
        /\ events = {[action |-> "create", object_id |-> 1]}
        /\ lastWrite = [i \in Ids |-> IF i = 1
                          THEN [op |-> "create", reason |-> None, raced |-> "none"]
                          ELSE NoWrite]
  /\ req = [w \in Procs |-> Idle]
  /\ done = NoFinish
  /\ started = 0
  /\ listing = NoListing
  /\ arg \in [body : CreateBodies]
  /\ out = NoRow

\* An administrator's create request with the body under check.
CreateChecked(w, u) ==
  /\ Begin(w)
  /\ nextId <= MaxId
  /\ require_admin(u)
  /\ CreateWith(w, u, arg.body)
  /\ UNCHANGED <<listing, arg, out>>

NextCreate == \E w \in Procs, u \in AdminOpUsers : CreateChecked(w, u)

SpecCreate == InitCreate /\ [][NextCreate]_vars

\* C12: a create request whose body lacks one of name, type, options, or
\* names a type the registry does not have, or carries options that are not
\* valid for the type's schema, ends with 400, and the table, the next id
\* and the recorded events are what they were; any other create request of
\* an administrator inserts the row and records the create event.
BadCreateBody(r) ==
  \/ r.keys # AllKeys
  \/ r.type \notin DOMAIN query_runners
  \/ \E f \in DOMAIN query_runners[r.type] :
       query_runners[r.type][f].required /\ f \notin DOMAIN r.options
  \/ \E f \in DOMAIN r.options :
       \/ f \notin DOMAIN query_runners[r.type]
       \/ ~TypeMatches(r.options[f], query_runners[r.type][f].type)

C12_CreateFailsBeforePersisting ==
  [][done'.op = "create" =>
       IF BadCreateBody(arg.body)
         THEN /\ done'.status = "400"
              /\ db' = db
              /\ nextId' = nextId
              /\ events' = events
         ELSE /\ done'.status = "200"
              /\ db'[nextId].name = arg.body.name
              /\ db'[nextId].type = arg.body.type
              /\ db'[nextId].options.values = arg.body.options
              /\ events' = events \cup {[action |-> "create", object_id |-> nextId]}]_vars

\* C12 witness: a create request with all three keys and a known type, but
\* options that lack the required password, has been refused and the table
\* holds no second row.
C12_Witness ==
  /\ done.op = "create"
  /\ done.status = "400"
  /\ arg.body.keys = AllKeys
  /\ arg.body.type = "pg"
  /\ arg.body.options = [f \in {"host"} |-> "s1"]
  /\ \A i \in Ids : Exists(i) => lastWrite[i].op = "create" /\ i = 1
  /\ [action |-> "create", object_id |-> nextId] \notin events

\* ------------------------------------------------- the bodies of responses
\* What each handler returns for the object it holds at its return.
GetResponse(ds) == to_dict(ds, TRUE)
UpdateResponse(ds) == to_dict(ds, TRUE)
CreateResponse(ds) == to_dict(ds, TRUE)
PauseResponseFull(ds) == to_dict(ds, TRUE)
PauseResponse(ds) == to_dict(ds, FALSE)
ResumeResponse(ds) == to_dict(ds, FALSE)

MaskedOps == {"pause", "resume", "list"}
FullOps == {"get", "update", "create"}

\* The response of the operation op for the row ds: a pause with the given
\* reason, a resume, the row's entry in the listing of u, a get, an update
\* that submits no new option, the create that made the row.
ResponseOf(op, ds, u, reason) ==
  CASE op = "pause" -> PauseResponse(PauseObject(ds, reason))
    [] op = "resume" -> ResumeResponse(ResumeObject(ds))
    [] op = "list" -> ListEntry(ds, u)
    [] op = "get" -> GetResponse(ds)
    [] op = "update" ->
         UpdateResponse(DataSourceResource_post(ds,
           [keys |-> AllKeys, type |-> ds.type, name |-> ds.name,
            options |-> EmptyDict]).ds)
    [] op = "create" -> CreateResponse(ds)

\* The rows responses are compared on: either type, paused or not.
MaskRows ==
  {[ds EXCEPT !.paused = ps.paused, !.pause_reason = ps.pause_reason] :
     ds \in LoadedRows,
     ps \in {NoPause, [paused |-> TRUE, pause_reason |-> None],
             [paused |-> TRUE, pause_reason |-> "r1"]}}

SecretFields(schema) == {f \in DOMAIN schema : schema[f].type = "secret"}

\* Two rows that differ at most in the values of their secret fields.
DifferOnlyInSecrets(a, b) ==
  /\ [a EXCEPT !.options = b.options] = b
  /\ a.options.schema = b.options.schema
  /\ DOMAIN a.options.values = DOMAIN b.options.values
  /\ \A f \in (DOMAIN a.options.values) \ SecretFields(a.options.schema) :
       a.options.values[f] = b.options.values[f]

InitMask ==
  /\ db = [i \in Ids |-> NoRow]
  /\ nextId = 1
  /\ req = [w \in Procs |-> Idle]
  /\ done = NoFinish
  /\ events = {}
  /\ lastWrite = [i \in Ids |-> NoWrite]
  /\ started = 0
  /\ listing = NoListing
  /\ arg \in {p \in [a : MaskRows, b : MaskRows] : DifferOnlyInSecrets(p.a, p.b)}
  /\ out = NoRow

AskBoth(op, u, reason) ==
  /\ out = NoRow
  /\ out' = [op |-> op, a |-> ResponseOf(op, arg.a, u, reason),
             b |-> ResponseOf(op, arg.b, u, reason)]
  /\ UNCHANGED <<db, nextId, req, done, events, lastWrite, started, listing, arg>>

NextMask ==
  \E op \in MaskedOps \cup FullOps, u \in Users, reason \in Reasons \cup {None} :
    /\ (op # "list") => (require_admin(u) /\ u.groups = {} /\ u.permissions = {"admin"})
    /\ (op # "pause") => reason = None
    /\ (op = "list") => has_permission(u, "list_data_sources")
    /\ AskBoth(op, u, reason)

SpecMask == InitMask /\ [][NextMask]_vars

\* C13: for two data sources that differ only in the values of secret
\* fields, pause, resume and the listing answer the same, for every caller;
\* get, update and create answer with the values of the secret fields.
C13_MaskedResponses ==
  out # NoRow =>
    /\ out.op \in MaskedOps => out.a = out.b
    /\ out.op \in FullOps =>
         \A f \in SecretFields(arg.a.options.schema) \cap DOMAIN arg.a.options.values :
           /\ out.a.options[f] = arg.a.options.values[f]
           /\ out.b.options[f] = arg.b.options.values[f]

\* C13 witness: a pause has answered for two data sources whose passwords
\* differ.
C13_Witness ==
  /\ out # NoRow
  /\ out.op = "pause"
  /\ arg.a.options.values # arg.b.options.values
  /\ "password" \in DOMAIN arg.a.options.values
  /\ arg.a.options.values["password"] # arg.b.options.values["password"]
  /\ out.a = out.b

\* C14: a create or update request refused because its options fail
\* validation is answered with the field that caused the failure.
C14_ValidationNamesField ==
  (done.op \in {"create", "update"} /\ done.exc = "ValidationError") =>
    done.field \in FieldNames

\* ----------------------------------- the live schema over tables with groups
NextSchema ==
  \E w \in Procs, u \in {x \in Users : "list_data_sources" \notin x.permissions},
     id \in Ids : GetSchema(w, u, id)

\* One data source, of either organization and with any groups: the handler
\* reads the one row it is asked for.
InitSchema ==
  /\ \E i \in Ids : \E ds \in ListedRow(i) :
       db = [j \in Ids |-> IF j = i THEN ds ELSE NoRow]
  /\ nextId = MaxId + 1
  /\ req = [w \in Procs |-> Idle]
  /\ done = NoFinish
  /\ events = {}
  /\ lastWrite = [i \in Ids |-> NoWrite]
  /\ started = 0
  /\ listing = NoListing
  /\ arg = NoRow
  /\ out = NoRow

SpecSchema == InitSchema /\ [][NextSchema]_vars

\* The operations that take a data source id.
IdOps == {"get", "update", "delete", "schema", "pause", "resume"}

\* C15: a request for a data source id that the requester's organization
\* does not have, by a requester the operation admits, ends with 404, and
\* the table and the recorded events are what they were.
C15_MissingIdIsNotFound ==
  [][(/\ done'.op \in IdOps
      /\ started' # started
      /\ done'.exc # "PermissionDenied"
      /\ get_by_id_and_org(db, done'.id, done'.org) = NoRow)
       => (done'.status = "404" /\ db' = db /\ events' = events)]_vars

\* C16: a request for the live schema of a data source of the requester's
\* organization is granted, and the connector asked, when the requester is
\* an administrator or shares a group with the data source, read-only or
\* not; otherwise it ends with 403 and the connector is not asked.
C16_SchemaNeedsReadAccess ==
  (done.op = "schema" /\ get_by_id_and_org(db, done.id, done.org) # NoRow) =>
    LET ds == db[done.id]
        shared == (DOMAIN ds.groups) \cap done.groups
    IN /\ (done.admin \/ shared # {}) =>
            (done.status \in {"200", "500"} /\ done.exc # "PermissionDenied" /\ done.asked)
       /\ (~done.admin /\ shared = {}) =>
            (done.status = "403" /\ done.exc = "PermissionDenied" /\ ~done.asked)

\* C16 witness: the live schema has been given to a requester who is no
\* administrator and whose only shared group with the data source is
\* read-only.
C16_Witness ==
  /\ done.op = "schema"
  /\ done.status = "200"
  /\ ~done.admin
  /\ get_by_id_and_org(db, done.id, done.org) # NoRow
  /\ (DOMAIN db[done.id].groups) \cap done.groups # {}
  /\ \A g \in (DOMAIN db[done.id].groups) \cap done.groups : db[done.id].groups[g]

\* ---------------------------------- the connector types over any registry
\* The registries: some of the types, each under a display name, in the
\* order the dictionary yields them.
Registries ==
  UNION {Orders(S) : S \in {T \in SUBSET Runners :
                              \A a, b \in T : a.type = b.type => a = b}}

InitTypes ==
  /\ arg \in Registries
  /\ db = [i \in Ids |-> NoRow]
  /\ nextId = 1
  /\ req = [w \in Procs |-> Idle]
  /\ done = NoFinish
  /\ events = {}
  /\ lastWrite = [i \in Ids |-> NoWrite]
  /\ started = 0
  /\ listing = NoListing
  /\ out = NoRow

NextTypes == \E w \in Procs, u \in AdminOpUsers : ListTypes(w, u, arg)

SpecTypes == InitTypes /\ [][NextTypes]_vars

\* C17: the list of connector types has every registered type exactly
\* once, ascending by display name, and types of equal display name in the
\* order of their type identifiers, whatever order the registry yields.
C17_TypesSortedWithTieBreak ==
  (done.op = "types" /\ done.status = "200") =>
    /\ Len(done.types) = Len(arg)
    /\ {done.types[k] : k \in 1..Len(done.types)} = {arg[k] : k \in 1..Len(arg)}
    /\ \A i, j \in 1..Len(done.types) :
         i < j =>
           \/ NameRank[done.types[i].name] < NameRank[done.types[j].name]
           \/ /\ done.types[i].name = done.types[j].name
              /\ TypeRank[done.types[i].type] < TypeRank[done.types[j].type]

\* The operations behind require_admin.
AdminOps == {"types", "get", "update", "delete", "create", "pause", "resume"}

\* C20: a request for an administrator-only operation by a requester
\* without the admin permission ends with 403 having read neither an id
\* nor the organization, the table and the events are what they were, and
\* no such request is left waiting to save.
C20_NonAdminDenied ==
  [][/\ \A w \in Procs :
          req'[w].pc = "save" => has_permission(req'[w].u, "admin")
     /\ (done'.op \in AdminOps /\ ~done'.admin) =>
          /\ done'.status = "403"
          /\ done'.exc = "PermissionDenied"
          /\ done'.id = 0
          /\ done'.org = "none"
          /\ db' = db
          /\ nextId' = nextId
          /\ events' = events]_vars

\* C20 witness: an update by a requester without the admin permission has
\* been refused while the table has a data source.
C20_Witness ==
  /\ done.op = "update"
  /\ ~done.admin
  /\ done.status = "403"
  /\ Exists(1)

\* ------------------------------------------- the reason of a pause request
\* A data source of the table, active or paused, and the body and the query
\* string of a pause request for it.
InitReason ==
  /\ db = [i \in Ids |-> NoRow]
  /\ nextId = 1
  /\ req = [w \in Procs |-> Idle]
  /\ done = NoFinish
  /\ events = {}
  /\ lastWrite = [i \in Ids |-> NoWrite]
  /\ started = 0
  /\ listing = NoListing
  /\ arg \in [ds : Created \cup {pause(ds, r) : ds \in Created, r \in Reasons \cup {None}},
              data : PauseData, args : PauseArgs]
  /\ out = NoRow

\* Lines 114-120: the reason read from the request, and pause(reason).
ApplyPause ==
  /\ out = NoRow
  /\ out' = PauseObject(arg.ds, PauseReason(arg.data, arg.args))
  /\ UNCHANGED <<db, nextId, req, done, events, lastWrite, started, listing, arg>>

NextReason == ApplyPause

SpecReason == InitReason /\ [][NextReason]_vars

\* C18: the reason a pause request records is the reason of its body when
\* the body has one, otherwise the reason of its query string, and none
\* only when neither has one.
C18_ReasonFromBodyOrQuery ==
  out # NoRow =>
    out.pause_reason = IF arg.data.json /\ arg.data.has_reason
                         THEN arg.data.reason
                         ELSE arg.args

\* C19: the save of a pause or resume request changes nothing but paused
\* and pause_reason of its row: name, type, options and groups of the row
\* and every other row are what the table held before the save.
C19_PauseKeepsOtherFields ==
  [][\A w \in Procs :
       (req[w].pc = "save" /\ req[w].op \in {"pause", "resume"} /\ req'[w].pc = "idle") =>
         \A i \in Ids :
           /\ (i # req[w].id \/ ~Exists(i)) => db'[i] = db[i]
           /\ (i = req[w].id /\ Exists(i)) =>
                db'[i] = [db[i] EXCEPT !.paused = db'[i].paused,
                                       !.pause_reason = db'[i].pause_reason]]_vars

====
